---------------------------- MODULE Spec2Model ----------------------------
(***************************************************************************)
(* A model of tstl (src/tstl.py): the script parser read_test, the test    *)
(* executor run_test with the child process and its two pipes, and the     *)
(* orchestration in cmd_run and main.                                      *)
(*                                                                         *)
(* Text is modelled as sequences of one-character strings, so that prefix  *)
(* matching, slicing and line splitting are computed, not assumed.         *)
(***************************************************************************)
EXTENDS Integers, Sequences, FiniteSets, TLC

(***************************************************************************)
(* Bounds of the model.                                                    *)
(***************************************************************************)
\* Most script files found by find_testpaths_in.
MaxFiles == 2
\* Most raw lines in one script file.
MaxLines == 3
\* Most characters before the newline in an exhaustively enumerated line.
MaxBody == 4
\* The capacity of the BufferedWriter that Popen puts on the child's stdin
\* (io.DEFAULT_BUFFER_SIZE, scaled down to the size of the model's payloads).
BufferSize == 3

(***************************************************************************)
(* Text.                                                                   *)
(***************************************************************************)
NL == "\n"

\* str.strip() removes these.
Whitespace == {" ", "\t", NL}

\* str.startswith
StartsWith(text, prefix) ==
    /\ Len(prefix) <= Len(text)
    /\ SubSeq(text, 1, Len(prefix)) = prefix

\* line.strip() == ""
StripIsEmpty(text) == \A k \in 1..Len(text) : text[k] \in Whitespace

\* text[:-1]
AllButLast(text) == SubSeq(text, 1, Len(text) - 1)

\* text[n:]
From(text, n) == SubSeq(text, n + 1, Len(text))

(***************************************************************************)
(* read_test.                                                              *)
(***************************************************************************)
TokInput     == <<">", ">", ">", " ">>
TokEndInput  == <<"!", ">", ">">>
TokOutput    == <<"<", "<", "<", " ">>
TokEndOutput == <<"!", "<", "<">>

\* The dict KINDS, in its insertion order (the order the for loop visits).
KINDS ==
    << [token |-> TokInput,     kind |-> "input"],
       [token |-> TokEndInput,  kind |-> "end_input"],
       [token |-> TokOutput,    kind |-> "output"],
       [token |-> TokEndOutput, kind |-> "end_output"] >>

\* kind_token, s = None, None
NoMatch == [kind_token |-> <<>>, s |-> <<>>]

\* The loop over KINDS: every token is tried, the last match wins.
RECURSIVE MatchFrom(_, _, _)
MatchFrom(text, k, acc) ==
    IF k > Len(KINDS) THEN acc
    ELSE LET len_token == Len(KINDS[k].token)
         IN  MatchFrom(text, k + 1,
                 IF StartsWith(text, KINDS[k].token)
                 THEN [kind_token |-> SubSeq(text, 1, len_token),
                       s |-> From(text, len_token)]
                 ELSE acc)

\* As if the line had been stripped of its newline before the match.
MatchTokenMutStripped(text) ==
    LET m == MatchFrom(text, 1, NoMatch)
    IN  [kind_token |-> m.kind_token,
         s |-> IF m.s # <<>> /\ m.s[Len(m.s)] = NL THEN AllButLast(m.s) ELSE m.s]

MatchToken(text) == MatchFrom(text, 1, NoMatch)

\* KINDS[kind_token]
KindOf(kind_token) ==
    KINDS[CHOOSE k \in 1..Len(KINDS) : KINDS[k].token = kind_token].kind

\* A line read_test skips: a comment, or empty after strip().
Skipped(text) == StartsWith(text, <<"#">>) \/ StripIsEmpty(text)

\* os.path.abspath of a name that os.listdir(".") returned.
AbsPath(path) == <<"cwd", path>>

NoOrigin == [path |-> <<>>, line |-> 0]

\* f"{absolute_testpath}:{idx_line+1}", idx counting from 0 over all raw lines.
OriginMutZeroBased(path, idx) == [path |-> AbsPath(path), line |-> idx]

Origin(path, idx) == [path |-> AbsPath(path), line |-> idx + 1]

\* A parser that validates the whole file before it yields anything.
RECURSIVE GenNextMutEager(_, _, _)
GenNextMutEager(path, ls, idx) ==
    LET bad == {k \in 1..Len(ls) :
                  ~Skipped(ls[k]) /\ MatchToken(ls[k]).kind_token = <<>>}
        first == CHOOSE k \in bad : \A j \in bad : k <= j
    IN  IF bad # {} /\ idx < first
        THEN [tag |-> "raise", kind |-> "", s |-> <<>>,
              origin |-> Origin(path, first - 1), idx |-> first]
        ELSE IF idx >= Len(ls)
        THEN [tag |-> "stop", kind |-> "", s |-> <<>>, origin |-> NoOrigin,
              idx |-> idx]
        ELSE IF Skipped(ls[idx + 1])
        THEN GenNextMutEager(path, ls, idx + 1)
        ELSE [tag |-> "yield",
              kind |-> KindOf(MatchToken(ls[idx + 1]).kind_token),
              s |-> MatchToken(ls[idx + 1]).s,
              origin |-> Origin(path, idx), idx |-> idx + 1]

\* One next() on the generator whose frame stands at raw line idx (0-based):
\* the directive it yields, the ValueError it raises, or StopIteration, with
\* the index the frame stands at afterwards.
RECURSIVE GenNext(_, _, _)
GenNext(path, ls, idx) ==
    IF idx >= Len(ls)
    THEN [tag |-> "stop", kind |-> "", s |-> <<>>, origin |-> NoOrigin, idx |-> idx]
    ELSE IF Skipped(ls[idx + 1])
    THEN GenNext(path, ls, idx + 1)
    ELSE LET m == MatchToken(ls[idx + 1])
         IN  IF m.kind_token = <<>>
             THEN [tag |-> "raise", kind |-> "", s |-> <<>>,
                   origin |-> Origin(path, idx), idx |-> idx + 1]
             ELSE [tag |-> "yield", kind |-> KindOf(m.kind_token), s |-> m.s,
                   origin |-> Origin(path, idx), idx |-> idx + 1]


(***************************************************************************)
(* The script files of the runs: raw lines as f.readlines() returns them,  *)
(* every line ending in a newline except, possibly, the last.              *)
(***************************************************************************)
LineInputA    == TokInput \o <<"a", NL>>
LineInputLong == TokInput \o <<"a", "a", "a", NL>>
LineEndInput  == TokEndInput \o <<NL>>
LineOutputA   == TokOutput \o <<"a", NL>>
LineEndOutput == TokEndOutput \o <<NL>>
LineBad       == <<"%", " ", "a", NL>>

PoolLines ==
    {LineInputA, LineInputLong, LineEndInput, LineOutputA, LineEndOutput,
     LineBad}

\* The lines whose text after the token is used: the payload lines.
PayloadLines == {LineInputA, LineInputLong, LineOutputA}

\* The same file without the newline at its very end.
ChopFinalNewline(ls) ==
    [k \in 1..Len(ls) |-> IF k = Len(ls) THEN AllButLast(ls[k]) ELSE ls[k]]

TerminatedScripts == UNION {[1..n -> PoolLines] : n \in 0..MaxLines}

\* The script files of the runs: every file over the pool, and every file
\* that ends in a payload line also without its final newline.
Scripts ==
    TerminatedScripts \cup
    {ChopFinalNewline(ls) :
        ls \in {f \in TerminatedScripts \ {<<>>} : f[Len(f)] \in PayloadLines}}

(***************************************************************************)
(* The child's stdin: an io.BufferedWriter over the write end of a pipe.   *)
(* A write, a flush and a close return the new buffer, the bytes that      *)
(* reached the pipe, and the exception raised, if any.                     *)
(***************************************************************************)
NoExc == ""

\* The raw write(2) of data: EPIPE when the child has closed the read end.
RawWrite(data, reader_gone) ==
    IF data = <<>> THEN [sent |-> <<>>, exc |-> NoExc]
    ELSE IF reader_gone THEN [sent |-> <<>>, exc |-> "BrokenPipeError"]
    ELSE [sent |-> data, exc |-> NoExc]

\* A write that takes the data whether or not the stream is closed.
StdinWriteMutIgnoreClosed(stdin, data, reader_gone) ==
    IF stdin.closed \/ Len(data) <= BufferSize - Len(stdin.buf)
    THEN [buf |-> stdin.buf \o data, sent |-> <<>>, exc |-> NoExc]
    ELSE LET flushed == RawWrite(stdin.buf \o data, reader_gone)
         IN  [buf |-> <<>>, sent |-> flushed.sent, exc |-> flushed.exc]

\* p.stdin.write(data)
StdinWrite(stdin, data, reader_gone) ==
    IF stdin.closed
    THEN [buf |-> stdin.buf, sent |-> <<>>, exc |-> "ValueError"]
    ELSE IF Len(data) <= BufferSize - Len(stdin.buf)
    THEN [buf |-> stdin.buf \o data, sent |-> <<>>, exc |-> NoExc]
    ELSE LET flushed == RawWrite(stdin.buf, reader_gone)
         IN  IF flushed.exc # NoExc
             THEN [buf |-> stdin.buf, sent |-> <<>>, exc |-> flushed.exc]
             ELSE IF Len(data) > BufferSize
             THEN LET direct == RawWrite(data, reader_gone)
                  IN  [buf |-> <<>>, sent |-> flushed.sent \o direct.sent,
                       exc |-> direct.exc]
             ELSE [buf |-> data, sent |-> flushed.sent, exc |-> NoExc]

\* A close that drops what it cannot flush and raises nothing.
StdinCloseMutSwallow(stdin, reader_gone) ==
    IF stdin.closed \/ reader_gone
    THEN [buf |-> <<>>, closed |-> TRUE, sent |-> <<>>, exc |-> NoExc]
    ELSE [buf |-> <<>>, closed |-> TRUE, sent |-> stdin.buf, exc |-> NoExc]

\* A close that flushes and leaves the descriptor open.
StdinCloseMutFlushOnly(stdin, reader_gone) ==
    IF stdin.closed
    THEN [buf |-> stdin.buf, closed |-> TRUE, sent |-> <<>>, exc |-> NoExc]
    ELSE LET flushed == RawWrite(stdin.buf, reader_gone)
         IN  [buf |-> <<>>, closed |-> FALSE, sent |-> flushed.sent,
              exc |-> flushed.exc]

\* p.stdin.close(): nothing on a closed stream; otherwise flush, then close
\* the descriptor whether or not the flush raised.
StdinClose(stdin, reader_gone) ==
    IF stdin.closed
    THEN [buf |-> stdin.buf, closed |-> TRUE, sent |-> <<>>, exc |-> NoExc]
    ELSE LET flushed == RawWrite(stdin.buf, reader_gone)
         IN  [buf |-> <<>>, closed |-> TRUE, sent |-> flushed.sent,
              exc |-> flushed.exc]

(***************************************************************************)
(* The child's stdout: readline() on the read end of a pipe.               *)
(***************************************************************************)
HasNewline(data) == \E k \in 1..Len(data) : data[k] = NL

FirstNewline(data) == CHOOSE k \in 1..Len(data) :
    data[k] = NL /\ \A j \in 1..(k - 1) : data[j] # NL

\* readline() returns once a newline or the end of the stream is there.
CanReadline(data, writer_gone) == HasNewline(data) \/ writer_gone

\* The line readline() returns: through the first newline, or what is left
\* at the end of the stream.
Readline(data) ==
    IF HasNewline(data) THEN SubSeq(data, 1, FirstNewline(data)) ELSE data

AfterReadline(data) ==
    IF HasNewline(data) THEN From(data, FirstNewline(data)) ELSE <<>>

(***************************************************************************)
(* Diagnostics and printed lines.                                          *)
(***************************************************************************)
Diag(fmt, origin, text) == [fmt |-> fmt, origin |-> origin, text |-> text]

\* f"At {origin}"
DiagAt(origin) == Diag("At", origin, <<>>)
\* f"Tried to close the standard input but it is already closed!"
DiagAlreadyClosed == Diag("AlreadyClosed", NoOrigin, <<>>)
\* f'Expected\t"{expected}"'
DiagExpected(expected) == Diag("Expected", NoOrigin, expected)
\* f'Got\t\t"{got}"'
DiagGot(got) == Diag("Got", NoOrigin, got)
\* f"Test failed at {origin}"
DiagTestFailedAt(origin) == Diag("TestFailedAt", origin, <<>>)
\* f"Expected End-Of-File"
DiagExpectedEOF == Diag("ExpectedEOF", NoOrigin, <<>>)

\* One print call: which one, and the values it interpolates.
Printed(fmt, arg, a, b) == [fmt |-> fmt, arg |-> arg, a |-> a, b |-> b]

(***************************************************************************)
(* main's tables.                                                          *)
(***************************************************************************)
SUBCOMMANDS == [run |-> "cmd_run", r |-> "cmd_run",
                new |-> "cmd_new", init |-> "cmd_new", i |-> "cmd_new"]

SubcommandNames == {"run", "r", "new", "init", "i"}

\* shutil.which(command[0]): the programs on the search path.
Executables == {"cat", "wc", "true"}

\* The lines cmd_new prints into the new file.
ExampleScript ==
    << <<"#", " ", "T", "e", "s", "t", " ", "f", "o", "r", " ", "w", "c", "\n">>,
       <<">", ">", ">", " ", "L", "o", "r", "e", "m", " ", "i", "p", "s", "u",
         "m", " ", "d", "o", "l", "o", "r", " ", "s", "i", "t", " ", "a", "m",
         "e", "t", ".", "\n">>,
       <<"!", ">", ">", "\n">>,
       <<"<", "<", "<", " ", " ", " ", " ", " ", " ", " ", "1", " ", " ", " ",
         " ", " ", " ", " ", "6", " ", " ", " ", " ", " ", " ", "3", "2", "\n">>,
       <<"!", "<", "<", "\n">> >>

\* The command lines of the runs.
Argvs ==
    { <<"tstl">>, <<"tstl", "bogus">>, <<"tstl", "run">>,
      <<"tstl", "run", "nosuch">>, <<"tstl", "run", "cat">>,
      <<"tstl", "r", "wc">>, <<"tstl", "run", "true">>,
      <<"tstl", "new">>, <<"tstl", "i", "x.tstl">> }

\* os.listdir(".") filtered to *.tstl: n names.
TestPaths(n) == [k \in 1..n |-> <<"t", k>>]


(***************************************************************************)
(* The word count program wc, one of the programs under test: it reads its *)
(* stdin to the end and prints the line, word and byte counts.             *)
(***************************************************************************)
DigitChars == <<"0", "1", "2", "3", "4", "5", "6", "7", "8", "9">>

RECURSIVE Digits(_)
Digits(n) ==
    IF n < 10 THEN <<DigitChars[n + 1]>>
    ELSE Digits(n \div 10) \o <<DigitChars[(n % 10) + 1]>>

RECURSIVE PadLeft(_, _)
PadLeft(text, width) ==
    IF Len(text) >= width THEN text ELSE PadLeft(<<" ">> \o text, width)

CountLines(data) == Cardinality({k \in 1..Len(data) : data[k] = NL})

\* A word starts at a non-blank character that follows a blank or nothing.
CountWords(data) ==
    Cardinality({k \in 1..Len(data) :
        /\ data[k] \notin Whitespace
        /\ (k = 1 \/ data[k - 1] \in Whitespace)})

WcOutput(data) ==
    PadLeft(Digits(CountLines(data)), 7) \o <<" ">> \o
    PadLeft(Digits(CountWords(data)), 7) \o <<" ">> \o
    PadLeft(Digits(Len(data)), 7) \o <<NL>>

(***************************************************************************)
(* State.                                                                  *)
(***************************************************************************)
VARIABLES
    argv,             \* sys.argv
    pc,               \* where the program stands
    out,              \* what was printed to sys.stdout, in order
    err,              \* what was printed to sys.stderr, in order
    exc,              \* the exception raised last, if any
    fs,               \* cmd_new: the lines it wrote into the new file
    paths_test,       \* cmd_run: the discovered script files
    i_test,           \* cmd_run: how many of them the for loop has taken
    num_tests_passed, \* cmd_run
    path_test,        \* run_test: its argument
    result_lines,     \* run_test
    ret,              \* run_test: the (passed, output) it returned
    lines,            \* read_test: f.readlines()
    opened,           \* read_test: whether the generator has started
    idx_line,         \* read_test: raw lines the generator has walked past
    stdin,            \* p.stdin: its buffer and whether it is closed
    to_child,         \* the bytes in the pipe to the child's stdin
    from_child,       \* the bytes in the pipe from the child's stdout
    child,            \* the child process: its state and what it has read
    applied,          \* history: the directives run_test took, in order
    launched          \* history: the path of every Popen, in order

vars == <<argv, pc, out, err, exc, fs, paths_test, i_test, num_tests_passed,
          path_test, result_lines, ret, lines, opened, idx_line, stdin,
          to_child, from_child, child, applied, launched>>

main_vars == <<argv, fs, paths_test, i_test, num_tests_passed>>
test_vars == <<path_test, result_lines, ret, lines, opened, idx_line, applied>>

NoChild == [state |-> "none", read |-> <<>>]
NoRet == [passed |-> FALSE, output |-> <<>>]
NoPath == <<>>
OpenStdin == [buf |-> <<>>, closed |-> FALSE]

\* command[0]
Command == IF Len(argv) >= 3 THEN argv[3] ELSE ""

\* The child has exited: its ends of both pipes are closed.
ChildGone == child.state \in {"exited", "reaped"}

(***************************************************************************)
(* Exceptions.                                                             *)
(***************************************************************************)
Exception(type, msg, origin) == [type |-> type, msg |-> msg, origin |-> origin]

NoException == Exception("", "", NoOrigin)

\* main's try/except: a ValueError is printed and main returns; anything
\* else leaves main as an unhandled exception.
MainExcept(e, printed) ==
    IF e.type = "ValueError"
    THEN [pc |-> "exit", out |-> Append(printed, Printed("exception", e.msg, e.origin.line, 0))]
    ELSE [pc |-> "crash", out |-> printed]

(***************************************************************************)
(* main, cmd_run up to its for loop, cmd_new.                              *)
(***************************************************************************)
MainOutcome(next_pc, printed_out, printed_err, e, written, paths) ==
    [pc |-> next_pc, out |-> printed_out, err |-> printed_err, exc |-> e,
     fs |-> written, paths_test |-> paths]

\* A cmd_run that goes to the listing without looking for the command.
CmdRunMutNoPreflight(args, n) ==
    IF Len(args) <= 1
    THEN MainOutcome("exit",
             <<Printed("Invalid number of parameters", "run", 0, 0),
               Printed("USAGE", args[1], 0, 0)>>,
             <<>>, NoException, <<>>, <<>>)
    ELSE MainOutcome("cmd_run_for", <<>>, <<>>, NoException, <<>>, TestPaths(n))

\* cmd_run(args) up to the for loop; n script files are found.
CmdRun(args, n) ==
    IF Len(args) <= 1
    THEN MainOutcome("exit",
             <<Printed("Invalid number of parameters", "run", 0, 0),
               Printed("USAGE", args[1], 0, 0)>>,
             <<>>, NoException, <<>>, <<>>)
    ELSE IF args[2] \notin Executables
    THEN MainOutcome("exit", <<>>,
             <<Printed("is not executable", args[2], 0, 0)>>,
             NoException, <<>>, <<>>)
    ELSE MainOutcome("cmd_run_for", <<>>, <<>>, NoException, <<>>, TestPaths(n))

\* cmd_new(args); exists is os.path.exists(filename).
CmdNew(args, exists) ==
    LET filename == IF Len(args) > 1 THEN args[2] ELSE "basic.tstl"
    IN  IF exists
        THEN MainOutcome("exit", <<Printed("already exists", filename, 0, 0)>>,
                 <<>>, NoException, <<>>, <<>>)
        ELSE MainOutcome("exit",
                 <<Printed("An example test was created", filename, 0, 0)>>,
                 <<>>, NoException, ExampleScript, <<>>)

\* main() up to the first script file.
MainBody(n, exists) ==
    IF Len(argv) <= 1
    THEN MainOutcome("exit", <<>>, <<Printed("USAGE", "", 0, 0)>>,
             NoException, <<>>, <<>>)
    ELSE IF argv[2] \notin SubcommandNames
    THEN MainOutcome("crash", <<>>, <<>>,
             Exception("KeyError", argv[2], NoOrigin), <<>>, <<>>)
    ELSE IF SUBCOMMANDS[argv[2]] = "cmd_run"
    THEN CmdRun(From(argv, 1), n)
    ELSE CmdNew(From(argv, 1), exists)

Main ==
    /\ pc = "main"
    /\ \E n \in 0..MaxFiles, exists \in BOOLEAN :
         LET r == MainBody(n, exists)
         IN  /\ pc' = r.pc
             /\ out' = r.out
             /\ err' = r.err
             /\ exc' = r.exc
             /\ fs' = r.fs
             /\ paths_test' = r.paths_test
    /\ UNCHANGED <<argv, i_test, num_tests_passed, test_vars, stdin, to_child,
                   from_child, child, launched>>

(***************************************************************************)
(* cmd_run's for loop.                                                     *)
(***************************************************************************)
\* sp.Popen(command, ...): the child starts; a program that reads nothing has
\* only its exit left to do.
Popen(command) ==
    [state |-> IF command = "true" THEN "finishing" ELSE "running",
     read |-> <<>>]

\* The loop takes the next path, prints it and calls run_test as far as the
\* Popen; or the loop is over and the summary is printed.
CmdRunFor ==
    /\ pc = "cmd_run_for"
    /\ IF i_test < Len(paths_test)
       THEN /\ i_test' = i_test + 1
            /\ path_test' = paths_test[i_test + 1]
            /\ out' = Append(out, Printed("Running test", paths_test[i_test + 1], 0, 0))
            /\ result_lines' = <<>>
            /\ child' = Popen(Command)
            /\ launched' = Append(launched, paths_test[i_test + 1])
            /\ stdin' = OpenStdin
            /\ to_child' = <<>>
            /\ from_child' = <<>>
            /\ lines' = <<>>
            /\ opened' = FALSE
            /\ idx_line' = 0
            /\ applied' = <<>>
            /\ ret' = NoRet
            /\ pc' = "run_test_for"
       ELSE /\ out' = Append(out, Printed("tests passed.", "",
                                 num_tests_passed, Len(paths_test)))
            /\ pc' = "exit"
            /\ UNCHANGED <<i_test, test_vars, stdin, to_child, from_child,
                           child, launched>>
    /\ UNCHANGED <<argv, err, exc, fs, paths_test, num_tests_passed>>

\* The prints of a result's lines: one print per line (the text of the lines
\* is what run_test returned, ret.output).
TabLines(output) == [k \in 1..Len(output) |-> Printed("tab line", "", 0, 0)]

\* What cmd_run prints for one result, and the count it keeps.
CmdRunReport(result, passed_before) ==
    IF ~result.passed
    THEN [out |-> <<Printed("FAILED.", "", 0, 0)>> \o TabLines(result.output)
                  \o <<Printed("", "", 0, 0)>>,
          num_tests_passed |-> passed_before]
    ELSE [out |-> <<Printed("passed.", "", 0, 0), Printed("", "", 0, 0)>>,
          num_tests_passed |-> passed_before + 1]

\* run_test has returned: the result is printed and counted.
CmdRunAfter ==
    /\ pc = "run_test_returned"
    /\ LET r == CmdRunReport(ret, num_tests_passed)
       IN  /\ out' = out \o r.out
           /\ num_tests_passed' = r.num_tests_passed
    /\ pc' = "cmd_run_for"
    /\ UNCHANGED <<argv, err, exc, fs, paths_test, i_test, test_vars, stdin,
                   to_child, from_child, child, launched>>


(***************************************************************************)
(* run_test.                                                               *)
(***************************************************************************)
\* The first next() on the generator: open(path_test) and f.readlines().
ReadTestOpen ==
    /\ pc = "run_test_for"
    /\ ~opened
    /\ \E content \in Scripts : lines' = content
    /\ opened' = TRUE
    /\ UNCHANGED <<main_vars, pc, out, err, exc, path_test, result_lines, ret,
                   idx_line, stdin, to_child, from_child, child, applied,
                   launched>>

\* What one directive does to the child's streams and to result_lines:
\* "continue" to the next directive, "return" False, or "raise".
Effect(outcome, sin, sent, rest, line, diags, e) ==
    [outcome |-> outcome, stdin |-> sin, sent |-> sent, from_child |-> rest,
     line |-> line, result_lines |-> diags, exc |-> e]

\* The comparison of the line read with the expected payload.
Mismatch(line, s) == line # s

\* s.encode("utf-8") and .decode("utf-8") are one byte per character on the
\* ASCII text of these scripts: the pipes carry the characters themselves.
ApplyInput(d, sin, fc, gone, diags) ==
    LET w == StdinWrite(sin, d.s, gone)
    IN  Effect(IF w.exc = NoExc THEN "continue" ELSE "raise",
               [buf |-> w.buf, closed |-> sin.closed], w.sent, fc, <<>>, diags,
               IF w.exc = NoExc THEN NoException
               ELSE Exception(w.exc, "write", NoOrigin))

\* An executor that fails on a broken pipe without saying where.
ApplyEndInputMutSilent(d, sin, fc, gone, diags) ==
    LET c == StdinClose(sin, gone)
    IN  Effect(IF c.exc = "BrokenPipeError" THEN "return" ELSE "continue",
            [buf |-> c.buf, closed |-> c.closed], c.sent, fc, <<>>, diags,
            NoException)

ApplyEndInput(d, sin, fc, gone, diags) ==
    LET c == StdinClose(sin, gone)
    IN  IF c.exc = "BrokenPipeError"
        THEN Effect("return", [buf |-> c.buf, closed |-> c.closed], c.sent, fc,
                 <<>>, diags \o <<DiagAt(d.origin), DiagAlreadyClosed>>,
                 NoException)
        ELSE Effect("continue", [buf |-> c.buf, closed |-> c.closed], c.sent,
                 fc, <<>>, diags, NoException)

\* An executor that records a mismatch and goes on to the next directive.
ApplyOutputMutCollect(d, sin, fc, gone, diags) ==
    LET line == Readline(fc)
    IN  Effect("continue", sin, <<>>, AfterReadline(fc), line,
            IF Mismatch(line, d.s)
            THEN diags \o <<DiagAt(d.origin), DiagExpected(AllButLast(d.s)),
                            DiagGot(AllButLast(line))>>
            ELSE diags,
            NoException)

ApplyOutput(d, sin, fc, gone, diags) ==
    LET line == Readline(fc)
    IN  IF Mismatch(line, d.s)
        THEN Effect("return", sin, <<>>, AfterReadline(fc), line,
                 diags \o <<DiagAt(d.origin), DiagExpected(AllButLast(d.s)),
                            DiagGot(AllButLast(line))>>,
                 NoException)
        ELSE Effect("continue", sin, <<>>, AfterReadline(fc), line, diags,
                 NoException)

\* An executor that takes the end of the stream for the failure.
ApplyEndOutputMutInverted(d, sin, fc, gone, diags) ==
    LET linebytes == Readline(fc)
    IN  IF linebytes # <<>>
        THEN Effect("continue", sin, <<>>, AfterReadline(fc), linebytes, diags,
                 NoException)
        ELSE Effect("return", sin, <<>>, AfterReadline(fc), linebytes,
                 diags \o <<DiagTestFailedAt(d.origin), DiagExpectedEOF,
                            DiagGot(AllButLast(linebytes))>>,
                 NoException)

\* An executor that lets lines past the expected end of the output go by.
ApplyEndOutputMutLenient(d, sin, fc, gone, diags) ==
    LET linebytes == Readline(fc)
    IN  Effect("continue", sin, <<>>, AfterReadline(fc), linebytes, diags,
            NoException)

ApplyEndOutput(d, sin, fc, gone, diags) ==
    LET linebytes == Readline(fc)
    IN  IF linebytes = <<>>
        THEN Effect("continue", sin, <<>>, AfterReadline(fc), linebytes, diags,
                 NoException)
        ELSE Effect("return", sin, <<>>, AfterReadline(fc), linebytes,
                 diags \o <<DiagTestFailedAt(d.origin), DiagExpectedEOF,
                            DiagGot(AllButLast(linebytes))>>,
                 NoException)

\* The if/elif chain of the loop body.
ApplyDirective(d, sin, fc, gone, diags) ==
    IF d.kind = "input" THEN ApplyInput(d, sin, fc, gone, diags)
    ELSE IF d.kind = "end_input" THEN ApplyEndInput(d, sin, fc, gone, diags)
    ELSE IF d.kind = "output" THEN ApplyOutput(d, sin, fc, gone, diags)
    ELSE ApplyEndOutput(d, sin, fc, gone, diags)

\* p.stdout.readline() blocks until a line or the end of the stream is there.
Blocked(d) ==
    /\ d.tag = "yield"
    /\ d.kind \in {"output", "end_output"}
    /\ ~CanReadline(from_child, ChildGone)

\* run_test's frame is left and p, its only reference to the Popen, with it:
\* Popen.__del__ reaps a child that has exited and the streams are closed with
\* the object; a child still running is kept, with its streams, in
\* subprocess._active.
PopenDel(proc, sin) ==
    IF proc.state = "exited"
    THEN [child |-> [proc EXCEPT !.state = "reaped"],
          stdin |-> [buf |-> <<>>, closed |-> TRUE]]
    ELSE [child |-> proc, stdin |-> sin]

\* One round of the for loop: the next directive is pulled from read_test
\* and applied; or read_test is exhausted and run_test returns True; or
\* read_test raises.
RunTestStep(d) ==
    IF d.tag = "stop"
    THEN Effect("return_true", stdin, <<>>, from_child, <<>>, result_lines,
             NoException)
    ELSE IF d.tag = "raise"
    THEN Effect("raise", stdin, <<>>, from_child, <<>>, result_lines,
             Exception("ValueError", "Invalid test", d.origin))
    ELSE ApplyDirective(d, stdin, from_child, ChildGone, result_lines)

\* The history entry of a directive: what it was, what was read for it, and
\* whether stdin was closed when it was taken.
Taken(d, e) ==
    [kind |-> d.kind, s |-> d.s, origin |-> d.origin, line |-> e.line,
     closed_before |-> stdin.closed]

RunTestFor ==
    /\ pc = "run_test_for"
    /\ opened
    /\ LET d == GenNext(path_test, lines, idx_line)
           e == RunTestStep(d)
           left == e.outcome # "continue"
           del == IF left
                  THEN PopenDel(child, e.stdin)
                  ELSE [child |-> child, stdin |-> e.stdin]
           caught == MainExcept(e.exc, out)
       IN  /\ ~Blocked(d)
           /\ idx_line' = d.idx
           /\ applied' = IF d.tag = "yield" THEN Append(applied, Taken(d, e))
                         ELSE applied
           /\ to_child' = to_child \o e.sent
           /\ from_child' = e.from_child
           /\ result_lines' = e.result_lines
           /\ stdin' = del.stdin
           /\ child' = del.child
           /\ exc' = IF e.outcome = "raise" THEN e.exc ELSE exc
           /\ ret' = IF e.outcome = "return_true"
                     THEN [passed |-> TRUE, output |-> e.result_lines]
                     ELSE IF e.outcome = "return"
                     THEN [passed |-> FALSE, output |-> e.result_lines]
                     ELSE ret
           /\ pc' = IF e.outcome = "continue" THEN "run_test_for"
                    ELSE IF e.outcome = "raise" THEN caught.pc
                    ELSE "run_test_returned"
           /\ out' = IF e.outcome = "raise" THEN caught.out ELSE out
    /\ UNCHANGED <<main_vars, err, path_test, lines, opened, launched>>

(***************************************************************************)
(* The programs under test, while run_test runs them.                      *)
(***************************************************************************)
\* The end of the child's stdin: the pipe is empty and its write end closed.
StdinAtEof == to_child = <<>> /\ stdin.closed

\* cat copies what it reads to its stdout, until the end of its stdin.
CatStep ==
    /\ pc = "run_test_for"
    /\ Command = "cat"
    /\ child.state = "running"
    /\ to_child # <<>> \/ StdinAtEof
    /\ IF to_child # <<>>
       THEN /\ from_child' = from_child \o to_child
            /\ child' = [child EXCEPT !.read = @ \o to_child]
            /\ to_child' = <<>>
       ELSE /\ child' = [child EXCEPT !.state = "finishing"]
            /\ UNCHANGED <<to_child, from_child>>
    /\ UNCHANGED <<main_vars, test_vars, pc, out, err, exc, stdin, launched>>

\* wc reads its stdin to the end, then prints the counts.
WcStep ==
    /\ pc = "run_test_for"
    /\ Command = "wc"
    /\ child.state = "running"
    /\ to_child # <<>> \/ StdinAtEof
    /\ IF to_child # <<>>
       THEN /\ child' = [child EXCEPT !.read = @ \o to_child]
            /\ to_child' = <<>>
            /\ UNCHANGED from_child
       ELSE /\ from_child' = from_child \o WcOutput(child.read)
            /\ child' = [child EXCEPT !.state = "finishing"]
            /\ UNCHANGED to_child
    /\ UNCHANGED <<main_vars, test_vars, pc, out, err, exc, stdin, launched>>

\* The child exits: its ends of the pipes are closed.
ChildExit ==
    /\ pc = "run_test_for"
    /\ child.state = "finishing"
    /\ child' = [child EXCEPT !.state = "exited"]
    /\ UNCHANGED <<main_vars, test_vars, pc, out, err, exc, stdin, to_child,
                   from_child, launched>>

(***************************************************************************)
(* The specification.                                                      *)
(***************************************************************************)
Init ==
    /\ argv \in Argvs
    /\ pc = "main"
    /\ out = <<>>
    /\ err = <<>>
    /\ exc = NoException
    /\ fs = <<>>
    /\ paths_test = <<>>
    /\ i_test = 0
    /\ num_tests_passed = 0
    /\ path_test = NoPath
    /\ result_lines = <<>>
    /\ ret = NoRet
    /\ lines = <<>>
    /\ opened = FALSE
    /\ idx_line = 0
    /\ stdin = OpenStdin
    /\ to_child = <<>>
    /\ from_child = <<>>
    /\ child = NoChild
    /\ applied = <<>>
    /\ launched = <<>>



Next ==
    \/ Main
    \/ CmdRunFor
    \/ ReadTestOpen
    \/ RunTestFor
    \/ CmdRunAfter
    \/ CatStep
    \/ WcStep
    \/ ChildExit

Spec == Init /\ [][Next]_vars


(***************************************************************************)
(* read_test on its own: list(read_test(path_test)) over a wider set of    *)
(* files.  applied holds the directives yielded so far (nothing is read    *)
(* for them), exc the ValueError raised.                                   *)
(***************************************************************************)
LineComment      == <<"#", " ", "a", NL>>
LineBlank        == <<" ", NL>>
LineEndInputJunk == TokEndInput \o <<"x", NL>>

ParsePool == PoolLines \cup {LineComment, LineBlank, LineEndInputJunk}

Alphabet == {">", "<", "!", " ", "#", "a"}

\* Every line of at most MaxBody characters over the alphabet, with and
\* without its newline; the empty string is no line.
Bodies == UNION {[1..n -> Alphabet] : n \in 0..MaxBody}

AllLines == {body \o <<NL>> : body \in Bodies} \cup (Bodies \ {<<>>})

ParseFiles ==
    UNION {[1..n -> ParsePool] : n \in 0..MaxLines}
    \cup {ChopFinalNewline(ls) :
            ls \in UNION {[1..n -> ParsePool \ {LineBlank}] : n \in 1..MaxLines}}
    \cup {<<l>> : l \in AllLines}

ParseInit ==
    /\ argv = <<"tstl">>
    /\ pc = "read_test"
    /\ out = <<>>
    /\ err = <<>>
    /\ exc = NoException
    /\ fs = <<>>
    /\ paths_test = <<>>
    /\ i_test = 0
    /\ num_tests_passed = 0
    /\ path_test = TestPaths(1)[1]
    /\ result_lines = <<>>
    /\ ret = NoRet
    /\ lines \in ParseFiles
    /\ opened = TRUE
    /\ idx_line = 0
    /\ stdin = OpenStdin
    /\ to_child = <<>>
    /\ from_child = <<>>
    /\ child = NoChild
    /\ applied = <<>>
    /\ launched = <<>>

\* One next() on the generator.
ReadTestNext ==
    /\ pc = "read_test"
    /\ LET d == GenNext(path_test, lines, idx_line)
       IN  /\ idx_line' = d.idx
           /\ applied' = IF d.tag = "yield"
                         THEN Append(applied,
                                  [kind |-> d.kind, s |-> d.s, origin |-> d.origin,
                                   line |-> <<>>, closed_before |-> FALSE])
                         ELSE applied
           /\ exc' = IF d.tag = "raise"
                     THEN Exception("ValueError", "Invalid test", d.origin)
                     ELSE exc
           /\ pc' = IF d.tag = "yield" THEN "read_test" ELSE "read_test_done"
    /\ UNCHANGED <<main_vars, out, err, path_test, result_lines, ret, lines,
                   opened, stdin, to_child, from_child, child, launched>>

ParseNext == ReadTestNext

ParseSpec == ParseInit /\ [][ParseNext]_vars


(***************************************************************************)
(* The round trip: cmd_new writes its example, and later runs of the       *)
(* program, in the directory that holds what cmd_new wrote, run it against *)
(* wc or another program.                                                  *)
(***************************************************************************)
\* The command lines that reach cmd_new.
NewArgvs ==
    { <<"tstl", "new">>, <<"tstl", "init">>, <<"tstl", "i">>,
      <<"tstl", "new", "x.tstl">>, <<"tstl", "init", "x.tstl">>,
      <<"tstl", "i", "x.tstl">> }

\* The command lines that run a program of the search path.
RunArgvs ==
    { <<"tstl", sub, command>> : sub \in {"run", "r"}, command \in Executables }

RoundTripInit ==
    /\ argv \in NewArgvs
    /\ pc = "main"
    /\ out = <<>>
    /\ err = <<>>
    /\ exc = NoException
    /\ fs = <<>>
    /\ paths_test = <<>>
    /\ i_test = 0
    /\ num_tests_passed = 0
    /\ path_test = NoPath
    /\ result_lines = <<>>
    /\ ret = NoRet
    /\ lines = <<>>
    /\ opened = FALSE
    /\ idx_line = 0
    /\ stdin = OpenStdin
    /\ to_child = <<>>
    /\ from_child = <<>>
    /\ child = NoChild
    /\ applied = <<>>
    /\ launched = <<>>

\* A later run of the program, once cmd_new has written its file: main and
\* cmd_run up to the for loop.  The listing finds n files, each one written
\* by cmd_new.
MainRunWritten ==
    /\ pc = "exit"
    /\ argv \in NewArgvs
    /\ fs # <<>>
    /\ \E a \in RunArgvs, n \in 1..MaxFiles :
         LET r == CmdRun(From(a, 1), n)
         IN  /\ argv' = a
             /\ pc' = r.pc
             /\ out' = r.out
             /\ err' = r.err
             /\ exc' = r.exc
             /\ paths_test' = r.paths_test
    /\ UNCHANGED <<fs, i_test, num_tests_passed, test_vars, stdin, to_child,
                   from_child, child, launched>>

\* The first next() on the generator, on a file cmd_new wrote.
ReadTestOpenWritten ==
    /\ pc = "run_test_for"
    /\ ~opened
    /\ lines' = fs
    /\ opened' = TRUE
    /\ UNCHANGED <<main_vars, pc, out, err, exc, path_test, result_lines, ret,
                   idx_line, stdin, to_child, from_child, child, applied,
                   launched>>

RoundTripNext ==
    \/ Main
    \/ MainRunWritten
    \/ CmdRunFor
    \/ ReadTestOpenWritten
    \/ RunTestFor
    \/ CmdRunAfter
    \/ CatStep
    \/ WcStep
    \/ ChildExit

RoundTripSpec == RoundTripInit /\ [][RoundTripNext]_vars


(***************************************************************************)
(* The runs of wc, a child that reads its stdin to the end, then writes    *)
(* one line and exits, over the scripts that give their input, close it    *)
(* and then read; with the scheduling these runs get: run_test takes its   *)
(* next step whenever it is not blocked in a read, and the child is        *)
(* scheduled whenever it can go on.                                        *)
(***************************************************************************)
\* Output lines that expect what wc prints for the payload "a" and for no
\* input at all.
LineOutputWcA    == TokOutput \o WcOutput(<<"a", NL>>)
LineOutputWcNone == TokOutput \o WcOutput(<<>>)

InputLines  == {LineInputA, LineInputLong}
OutputLines == {LineOutputA, LineOutputWcA, LineOutputWcNone}

\* The files of at most MaxLines lines made of Input lines, one EndInput
\* line, Output lines and at most one EndOutput line, in this order; and
\* those that end in an Output line, without their final newline.
CanonicalScripts ==
    LET whole ==
          {ins \o <<LineEndInput>> \o outs \o fin :
             ins \in UNION {[1..n -> InputLines] : n \in 0..(MaxLines - 1)},
             outs \in UNION {[1..n -> OutputLines] : n \in 0..(MaxLines - 1)},
             fin \in {<<>>, <<LineEndOutput>>}}
        fitting == {ls \in whole : Len(ls) <= MaxLines}
    IN  fitting \cup {ChopFinalNewline(ls) :
                         ls \in {f \in fitting : f[Len(f)] \in OutputLines}}

\* The first next() on the generator, on one of these files.
ReadTestOpenCanonical ==
    /\ pc = "run_test_for"
    /\ ~opened
    /\ \E content \in CanonicalScripts : lines' = content
    /\ opened' = TRUE
    /\ UNCHANGED <<main_vars, pc, out, err, exc, path_test, result_lines, ret,
                   idx_line, stdin, to_child, from_child, child, applied,
                   launched>>

WcInit ==
    /\ Init
    /\ Len(argv) = 3
    /\ argv[3] = "wc"

WcNext ==
    \/ Main
    \/ CmdRunFor
    \/ ReadTestOpenCanonical
    \/ RunTestFor
    \/ CmdRunAfter
    \/ WcStep
    \/ ChildExit

WcFairSpec ==
    /\ WcInit
    /\ [][WcNext]_vars
    /\ WF_vars(RunTestFor)
    /\ WF_vars(WcStep)
    /\ WF_vars(ChildExit)


(***************************************************************************)
(* What the claims speak of, stated on the raw lines of a file.            *)
(***************************************************************************)
\* The entries of KINDS whose token the raw line starts with.
MatchingKinds(raw) == {k \in 1..Len(KINDS) : StartsWith(raw, KINDS[k].token)}

\* The numbers (from 1) of the raw lines that are not skipped.
NonSkipped(ls) == {j \in 1..Len(ls) : ~Skipped(ls[j])}

\* The number of the k-th raw line that is not skipped.
NthNonSkipped(ls, k) ==
    CHOOSE j \in NonSkipped(ls) :
        Cardinality({n \in NonSkipped(ls) : n < j}) = k - 1

\* The numbers of the non-skipped raw lines that start with no token.
BadLines(ls) == {j \in NonSkipped(ls) : MatchingKinds(ls[j]) = {}}

\* The raw line is the token of the directive's kind followed by its payload.
ComesFrom(dv, raw) ==
    \E k \in 1..Len(KINDS) :
        /\ KINDS[k].kind = dv.kind
        /\ raw = KINDS[k].token \o dv.s

\* read_test has raised its ValueError for an unrecognized line.
SyntaxErrorRaised == exc.type = "ValueError" /\ exc.msg = "Invalid test"

\* run_test is over for the current file: it returned or raised.
RunTestOver == pc \in {"run_test_returned", "cmd_run_for", "exit", "crash"}

LastApplied == applied[Len(applied)]

\* The text of a line as a reader sees it: without its trailing newline, if
\* it has one.
StripNewline(text) ==
    IF text # <<>> /\ text[Len(text)] = NL
    THEN SubSeq(text, 1, Len(text) - 1)
    ELSE text

(***************************************************************************)
(* C1: for every script made only of Input directives, each followed by an *)
(* Output directive expecting the same line, run against a child that      *)
(* echoes every stdin line (cat), run_test returns, and returns            *)
(* passed=true with no diagnostics.  As a property of every state of such  *)
(* a run: run_test has returned that result, or a step of run_test or of   *)
(* the child is still possible.                                            *)
(***************************************************************************)
IsEchoScript(ls) ==
    LET n == Cardinality(NonSkipped(ls))
    IN  /\ BadLines(ls) = {}
        /\ n % 2 = 0
        /\ \A k \in 1..n :
             LET raw == ls[NthNonSkipped(ls, k)]
             IN  IF k % 2 = 1
                 THEN /\ StartsWith(raw, TokInput)
                      /\ From(raw, Len(TokInput))
                           = From(ls[NthNonSkipped(ls, k + 1)], Len(TokOutput))
                 ELSE StartsWith(raw, TokOutput)

EchoRun == Command = "cat" /\ opened /\ IsEchoScript(lines)

C1_EchoScriptPasses ==
    /\ (EchoRun /\ pc = "run_test_returned") =>
           (ret.passed /\ ret.output = <<>>)
    /\ (EchoRun /\ pc = "run_test_for") =>
           ENABLED (RunTestFor \/ CatStep \/ ChildExit)

C3_SecondEndInputFails ==
    \A k \in 1..Len(applied) :
        (applied[k].kind = "end_input" /\ applied[k].closed_before) =>
            /\ k = Len(applied)
            /\ RunTestOver
            /\ ret.passed = FALSE
            /\ ret.output = <<DiagAt(applied[k].origin), DiagAlreadyClosed>>

(***************************************************************************)
(* C4: whenever run_test returns, the child's stdin is closed and the      *)
(* child has been reaped.                                                  *)
(***************************************************************************)
C4_ReleasedOnReturn ==
    pc = "run_test_returned" => (stdin.closed /\ child.state = "reaped")

(***************************************************************************)
(* C5: a file with an unrecognized line is reported as failed by the run:  *)
(* once the run is over, FAILED was printed for that file and the summary  *)
(* counts it in the total and not among the passed.                        *)
(***************************************************************************)
ReportedFailed(path) ==
    \E k \in 1..(Len(out) - 1) :
        /\ out[k].fmt = "Running test"
        /\ out[k].arg = path
        /\ out[k + 1].fmt = "FAILED."

PassedPrinted == Cardinality({k \in 1..Len(out) : out[k].fmt = "passed."})

C5_BadFileReportedFailed ==
    (SyntaxErrorRaised /\ pc \in {"exit", "crash"}) =>
        /\ ReportedFailed(path_test)
        /\ \E k \in 1..Len(out) :
             /\ out[k].fmt = "tests passed."
             /\ out[k].b = Len(paths_test)
             /\ out[k].a = PassedPrinted
             /\ out[k].a < out[k].b

(***************************************************************************)
(* C6: once the command has passed the pre-flight check, whatever happens  *)
(* in a single file, the run ends with run_test invoked exactly once per   *)
(* discovered file and with the summary printed last, its counts the       *)
(* number of passed results and the number of discovered files.            *)
(***************************************************************************)
PreflightPassed ==
    /\ Len(argv) >= 3
    /\ argv[2] \in {"run", "r"}
    /\ argv[3] \in Executables

C6_RunCompletes ==
    (PreflightPassed /\ pc \in {"exit", "crash"}) =>
        /\ launched = paths_test
        /\ out # <<>>
        /\ out[Len(out)] = Printed("tests passed.", "", PassedPrinted,
                                   Len(paths_test))

(***************************************************************************)
(* C7 as claimed: when read_test raises for an unrecognized line, none of  *)
(* the directives that precede the line has been delivered to run_test.    *)
(***************************************************************************)
C7_NothingDelivered == SyntaxErrorRaised => applied = <<>>

(***************************************************************************)
(* C7 as amended: when read_test raises for an unrecognized line, every    *)
(* directive that precedes the line has already been delivered to          *)
(* run_test, in file order, and none from that line on.                    *)
(***************************************************************************)
C7_PrefixDelivered ==
    SyntaxErrorRaised =>
        LET n == exc.origin.line
            before == {j \in NonSkipped(lines) : j < n}
        IN  /\ n \in BadLines(lines)
            /\ idx_line = n
            /\ Len(applied) = Cardinality(before)
            /\ \A k \in 1..Len(applied) :
                 /\ applied[k].origin.line = NthNonSkipped(lines, k)
                 /\ ComesFrom(applied[k], lines[applied[k].origin.line])

\* The error is raised after an Input payload of the file reached the child.
C7_Witness ==
    /\ SyntaxErrorRaised
    /\ Len(applied) >= 2
    /\ \E k \in 1..Len(applied) : applied[k].kind = "input"
    /\ child.read # <<>>

(***************************************************************************)
(* C8: the location of every directive, and of the ValueError for an       *)
(* unrecognized line, is the absolute path of the script file and the      *)
(* 1-based number of the line among all raw lines of the file, skipped     *)
(* lines counted.                                                          *)
(***************************************************************************)
C8_OriginIsRawLineNumber ==
    /\ \A k \in 1..Len(applied) :
         /\ applied[k].origin.path = AbsPath(path_test)
         /\ applied[k].origin.line = NthNonSkipped(lines, k)
         /\ ComesFrom(applied[k], lines[applied[k].origin.line])
    /\ SyntaxErrorRaised =>
         /\ exc.origin.path = AbsPath(path_test)
         /\ exc.origin.line = NthNonSkipped(lines, Len(applied) + 1)
         /\ exc.origin.line \in BadLines(lines)

\* A directive and an error located past skipped lines.
C8_Witness ==
    /\ pc = "read_test_done"
    /\ SyntaxErrorRaised
    /\ applied # <<>>
    /\ LastApplied.origin.line > Len(applied)
    /\ exc.origin.line > Len(applied) + 1

(***************************************************************************)
(* C9: for a file whose non-skipped lines all start with a token,          *)
(* read_test yields exactly one directive per non-skipped line, in file    *)
(* order, and none for a skipped line; no line starts with two tokens; the *)
(* kind is that of the token the line starts with, whatever follows the    *)
(* token, and the payload is the rest of the line, newline included.       *)
(***************************************************************************)
C9_OneDirectivePerLine ==
    /\ \A j \in 1..Len(lines) : Cardinality(MatchingKinds(lines[j])) <= 1
    /\ (pc = "read_test_done" /\ BadLines(lines) = {}) =>
         /\ exc = NoException
         /\ Len(applied) = Cardinality(NonSkipped(lines))
         /\ \A k \in 1..Len(applied) :
              LET raw == lines[NthNonSkipped(lines, k)]
                  t == KINDS[CHOOSE m \in MatchingKinds(raw) : TRUE]
              IN  /\ applied[k].kind = t.kind
                  /\ applied[k].s = From(raw, Len(t.token))
                  /\ raw = t.token \o applied[k].s

\* A file with a skipped line, an EndInput followed by junk and a payload.
C9_Witness ==
    /\ pc = "read_test_done"
    /\ BadLines(lines) = {}
    /\ Len(applied) >= 2
    /\ Len(applied) < Len(lines)
    /\ \E k \in 1..Len(applied) :
         applied[k].kind = "end_input" /\ applied[k].s # <<NL>>
    /\ \E k \in 1..Len(applied) :
         applied[k].kind = "input" /\ applied[k].s = <<"a", NL>>

(***************************************************************************)
(* C10: when the script ends in EndOutput and the read for it reaches the  *)
(* end of the stream, the directive is satisfied and run_test returns      *)
(* passed=true.                                                            *)
(***************************************************************************)
\* The last directive of the script was an EndOutput whose read was empty.
EndOutputSatisfiedLast ==
    /\ applied # <<>>
    /\ LastApplied.kind = "end_output"
    /\ LastApplied.line = <<>>
    /\ \A j \in NonSkipped(lines) : j <= LastApplied.origin.line

C10_EndOutputAtEofPasses ==
    /\ (EndOutputSatisfiedLast /\ pc = "run_test_for") => ENABLED RunTestFor
    /\ (EndOutputSatisfiedLast /\ pc # "run_test_for") =>
         /\ RunTestOver
         /\ exc = NoException
         /\ ret = [passed |-> TRUE, output |-> <<>>]

\* run_test returned after an EndOutput that found the stream at its end.
C10_Witness ==
    /\ pc = "run_test_returned"
    /\ EndOutputSatisfiedLast
    /\ Len(applied) >= 2
    /\ ret.passed

C12_ResultShape ==
    pc = "run_test_returned" =>
        /\ ret.passed <=> (ret.output = <<>>)
        /\ ~ret.passed =>
             /\ ret.output # <<>>
             /\ applied # <<>>
             /\ ret.output[1].fmt \in {"At", "TestFailedAt"}
             /\ ret.output[1].origin
                  = [path |-> AbsPath(path_test), line |-> idx_line]
             /\ idx_line = NthNonSkipped(lines, Len(applied))
             /\ ComesFrom(LastApplied, lines[idx_line])
        /\ ret.passed =>
             /\ idx_line = Len(lines)
             /\ BadLines(lines) = {}
             /\ Len(applied) = Cardinality(NonSkipped(lines))
             /\ \A k \in 1..Len(applied) :
                  /\ applied[k].kind = "output" =>
                        applied[k].line = applied[k].s
                  /\ applied[k].kind = "end_output" =>
                        applied[k].line = <<>>

\* A failed result whose directive is not the first of the script, with
\* lines of the script left unread.
C12_Witness ==
    /\ pc = "run_test_returned"
    /\ ~ret.passed
    /\ Len(ret.output) >= 2
    /\ Len(applied) >= 2
    /\ idx_line < Len(lines)

(***************************************************************************)
(* C13: the script cmd_new writes, run by run_test against wc, yields      *)
(* passed=true.                                                            *)
(***************************************************************************)
\* run_test has returned from a run of cmd_new's script against wc.
ExampleRunReturned ==
    /\ pc = "run_test_returned"
    /\ Command = "wc"
    /\ opened
    /\ lines = ExampleScript

C13_RoundTripPasses == ExampleRunReturned => ret.passed

(***************************************************************************)
(* C14: when the command given to run is not an executable of the search   *)
(* path, cmd_run reports the error on stderr and returns before any test:  *)
(* no script file is listed or read, no child is launched, and nothing is  *)
(* printed on stdout (no per-test line, no summary).                       *)
(***************************************************************************)
NotExecutable ==
    /\ Len(argv) >= 3
    /\ argv[2] \in {"run", "r"}
    /\ argv[3] \notin Executables

C14_NotExecutableAborts ==
    NotExecutable =>
        /\ pc \in {"main", "exit"}
        /\ pc = "exit" =>
             err = <<Printed("is not executable", argv[3], 0, 0)>>
        /\ out = <<>>
        /\ paths_test = <<>>
        /\ launched = <<>>
        /\ child = NoChild
        /\ ~opened
        /\ lines = <<>>
        /\ exc = NoException

\* The run of a command that is not executable has ended.
C14_Witness ==
    /\ NotExecutable
    /\ pc = "exit"
    /\ err # <<>>

(***************************************************************************)
(* C15: when argv names a subcommand that is not in SUBCOMMANDS, main      *)
(* reports a usage error and returns: no exception leaves main.            *)
(***************************************************************************)
UnknownSubcommand == Len(argv) >= 2 /\ argv[2] \notin SubcommandNames

C15_UnknownSubcommandReported ==
    UnknownSubcommand =>
        /\ pc \in {"main", "exit"}
        /\ exc = NoException
        /\ pc = "exit" => (out # <<>> \/ err # <<>>)

(***************************************************************************)
(* C16: each run_test launches one child, for its own file, after the      *)
(* loop of the file before it is over; and while run_test applies the      *)
(* directives of a file, the bytes its child has been handed on stdin are  *)
(* at every moment the payloads of the Input directives taken so far, in   *)
(* file order, one after the other.                                        *)
(***************************************************************************)
RECURSIVE InputPayloads(_)
\* The payloads of the Input directives of a history, concatenated.
InputPayloads(taken) ==
    IF taken = <<>> THEN <<>>
    ELSE LET rest == InputPayloads(SubSeq(taken, 1, Len(taken) - 1))
             last == taken[Len(taken)]
         IN  IF last.kind = "input" THEN rest \o last.s ELSE rest

\* The bytes put into the pipe to the child: those it has read and those
\* still in the pipe.
Handed == child.read \o to_child

C16_OneChildInOrderUnbatched ==
    /\ launched = SubSeq(paths_test, 1, i_test)
    /\ pc = "run_test_for" =>
         /\ path_test = launched[Len(launched)]
         /\ Handed = InputPayloads(applied)

(***************************************************************************)
(* C17: when an Output directive mismatches, the expected and the actual   *)
(* text shown in the diagnostics are the expected payload and the line     *)
(* read, each without its trailing newline and otherwise whole: also for   *)
(* an expected payload that comes from a last line with no newline, and    *)
(* for the empty line read at the end of the stream.                       *)
(***************************************************************************)
C17_MismatchShowsStrippedTexts ==
    \A k \in 1..Len(applied) :
        (applied[k].kind = "output" /\ applied[k].line # applied[k].s) =>
            /\ RunTestOver
            /\ ret.passed = FALSE
            /\ ret.output = <<DiagAt(applied[k].origin),
                              DiagExpected(StripNewline(applied[k].s)),
                              DiagGot(StripNewline(applied[k].line))>>

(***************************************************************************)
(* C18: when an EndInput directive is processed while an Input payload is  *)
(* still in the buffer of the open stdin and the child has already exited, *)
(* the broken pipe is caught: run_test returns passed=false with the       *)
(* location of the directive and the "already closed" message, no          *)
(* exception leaves run_test, and the directive is the last one taken.     *)
(***************************************************************************)
\* stdin is open with a payload pending and the child has exited.
PendingForGoneChild ==
    /\ pc = "run_test_for"
    /\ opened
    /\ ~stdin.closed
    /\ stdin.buf # <<>>
    /\ ChildGone

\* This step of run_test takes an EndInput directive.
TakesEndInput ==
    /\ Len(applied') = Len(applied) + 1
    /\ applied'[Len(applied')].kind = "end_input"

C18_BrokenPipeCaught ==
    [][(PendingForGoneChild /\ TakesEndInput) =>
          /\ pc' = "run_test_returned"
          /\ exc' = NoException
          /\ ret' = [passed |-> FALSE,
                     output |-> <<DiagAt(applied'[Len(applied')].origin),
                                  DiagAlreadyClosed>>]
          /\ idx_line' = applied'[Len(applied')].origin.line
          /\ to_child' = to_child]_vars

\* run_test returned from the first EndInput of a script run against a child
\* that had exited without reading the payload written before.
C18_Witness ==
    /\ pc = "run_test_returned"
    /\ Command = "true"
    /\ Len(applied) >= 2
    /\ LastApplied.kind = "end_input"
    /\ ~LastApplied.closed_before
    /\ applied[Len(applied) - 1].kind = "input"
    /\ ~ret.passed
    /\ ret.output = <<DiagAt(LastApplied.origin), DiagAlreadyClosed>>
    /\ Handed = <<>>

(***************************************************************************)
(* C19: an Input directive taken after an EndInput has closed stdin hands  *)
(* its payload to nobody: the write raises out of run_test, which returns  *)
(* no result for the script (so never passed=true), and the child has been *)
(* handed the payloads of the Input directives before it and nothing more. *)
(***************************************************************************)
C19_InputAfterCloseRaises ==
    \A k \in 1..Len(applied) :
        (applied[k].kind = "input" /\ applied[k].closed_before) =>
            /\ k = Len(applied)
            /\ pc = "exit"
            /\ exc.type = "ValueError"
            /\ exc.msg = "write"
            /\ ret = NoRet
            /\ Handed = InputPayloads(SubSeq(applied, 1, k - 1))
            /\ out[Len(out)].fmt = "exception"
            /\ PassedPrinted = num_tests_passed

\* The write of an Input directive raised after an earlier payload had
\* reached the child through the EndInput before it.
C19_Witness ==
    /\ pc = "exit"
    /\ Len(applied) = 3
    /\ applied[1].kind = "input"
    /\ applied[2].kind = "end_input"
    /\ applied[3].kind = "input"
    /\ applied[3].closed_before
    /\ exc.type = "ValueError"
    /\ Handed = applied[1].s

(***************************************************************************)
(* C20: for a script of the canonical shape (Input directives, then one    *)
(* EndInput, then Output directives, then at most one EndOutput), run      *)
(* against a child that reads its stdin to the end, writes finitely many   *)
(* lines and exits, run_test eventually returns, provided the child is     *)
(* scheduled fairly.                                                       *)
(***************************************************************************)
\* The kind of the k-th non-skipped line of a file without bad lines.
KindAt(ls, k) ==
    KINDS[CHOOSE m \in MatchingKinds(ls[NthNonSkipped(ls, k)]) : TRUE].kind

IsCanonicalScript(ls) ==
    LET n == Cardinality(NonSkipped(ls))
    IN  /\ BadLines(ls) = {}
        /\ \E e \in 1..n :
             /\ KindAt(ls, e) = "end_input"
             /\ \A k \in 1..(e - 1) : KindAt(ls, k) = "input"
             /\ \A k \in (e + 1)..n :
                  \/ KindAt(ls, k) = "output"
                  \/ k = n /\ KindAt(ls, k) = "end_output"

\* run_test is at work on a canonical script with wc for its child.
CanonicalRun ==
    /\ pc = "run_test_for"
    /\ Command = "wc"
    /\ opened
    /\ IsCanonicalScript(lines)

\* What is left to do before run_test must have returned: the lines not yet
\* pulled, then the steps the child has left (read what is in the pipe, see
\* the end of its stdin and write, exit).
StepsLeft ==
    6 * (Len(lines) - idx_line)
    + 2 * (IF child.state = "running" THEN 2
           ELSE IF child.state = "finishing" THEN 1 ELSE 0)
    + (IF to_child # <<>> THEN 1 ELSE 0)

\* As a property of finite runs: while run_test is at work on such a script
\* a step of run_test or of the child is always possible, and every step
\* either is the return of run_test or leaves strictly less to do; so under
\* weak fairness of these steps run_test returns.
C20_CanonicalRunReturns ==
    /\ [](CanonicalRun =>
            (ENABLED ChildExit \/ ENABLED WcStep \/ ENABLED RunTestFor))
    /\ [][CanonicalRun =>
            \/ pc' = "run_test_returned"
            \/ /\ pc' = "run_test_for"
               /\ lines' = lines
               /\ StepsLeft' < StepsLeft]_vars

\* run_test returned from a canonical script whose Output directive got the
\* line wc wrote, after reading the end of wc's output for the next one.
C20_Witness ==
    /\ pc = "run_test_returned"
    /\ Command = "wc"
    /\ IsCanonicalScript(lines)
    /\ Len(applied) = 3
    /\ applied[1].kind = "end_input"
    /\ applied[2].kind = "output"
    /\ applied[2].line = applied[2].s
    /\ applied[3].line = <<>>
    /\ child.state = "reaped"

=============================================================================
